---- MODULE Spec2Model ----
(***************************************************************************)
(* Path require mode of darklua (src/rules/require/path_require_mode.rs):  *)
(* the .luaurc alias loader, the construction paths of PathRequireMode,    *)
(* the module folder predicate, find_require and generate_require.         *)
(*                                                                         *)
(* Strings whose characters matter (alias keys, file names, literals) are  *)
(* sequences of one-character strings; PathBuf values stored in the alias  *)
(* mapping are opaque strings.  A Path is the record of what               *)
(* Path::components yields: abs (has a root) and comps (the components,    *)
(* "." for CurDir, ".." for ParentDir, anything else Normal).              *)
(***************************************************************************)
EXTENDS Integers, Sequences, FiniteSets, TLC

VARIABLES platform, luaurc, mode, op, res, current_path, call, found, gen

vars == <<platform, luaurc, mode, op, res, current_path, call, found, gen>>

(* ---------------- bounds of the model ---------------- *)
MaxAliases == 2
MaxFields == 2

(* ---------------- strings ---------------- *)
AT == "@"
DOT == "."
SLASH == "/"
BACKSLASH == "\\"

DEFAULT_MODULE_FOLDER_NAME == <<"i", "n", "i", "t">>

get_default_module_folder_name == DEFAULT_MODULE_FOLDER_NAME

StartsWith(s, p) == Len(s) >= Len(p) /\ SubSeq(s, 1, Len(p)) = p

(* ---------------- alias mappings (HashMap<String, PathBuf>) ---------------- *)
EmptyMap == [k \in {} |-> ""]

(* an insertion that keeps the entry already present (entry().or_insert) *)
InsertKeep(m, k, v) == [x \in (DOMAIN m) \cup {k} |-> IF x \in DOMAIN m THEN m[x] ELSE v]

Insert(m, k, v) == [x \in (DOMAIN m) \cup {k} |-> IF x = k THEN v ELSE m[x]]

Maps(keys, vals, n) ==
    UNION {[d -> vals] : d \in {s \in SUBSET keys : Cardinality(s) <= n}}

(* keys an embedding document may give in `sources` *)
SourceKeys == {<<"@", "a">>, <<"a">>, <<"@", "b">>}
(* alias names a .luaurc may declare *)
AliasNames == {<<"a">>, <<"b">>, <<"@", "a">>}
BasePaths == {"/x", "/y"}

SourceMaps == Maps(SourceKeys, BasePaths, MaxAliases)
AliasMaps == Maps(AliasNames, BasePaths, MaxAliases)

(* the file ./.luaurc: absent, present but not a valid Luaurc document,   *)
(* or a valid one declaring `aliases`                                      *)
LuaurcFiles ==
    {[status |-> "absent", aliases |-> EmptyMap],
     [status |-> "invalid", aliases |-> EmptyMap]}
    \cup {[status |-> "valid", aliases |-> a] : a \in AliasMaps}

(* results: Ok(sources) / Ok(PathRequireMode) / Err(kind) *)
Ok(name, sources) ==
    [ok |-> TRUE, err |-> "", module_folder_name |-> name, sources |-> sources]
Err(kind) ==
    [ok |-> FALSE, err |-> kind, module_folder_name |-> <<>>, sources |-> EmptyMap]

(* the key inserted as declared, without the marker *)
DecorateBare(k) == k

(* String::from("@") + &k *)
Decorate(k) == <<AT>> \o k

(* the for loop of load_luaurc: sources.insert("@" + k, v) for every alias, *)
(* in the iteration order of the HashMap (arbitrary)                        *)
RECURSIVE InsertAliases(_, _, _)
InsertAliases(sources, aliases, todo) ==
    IF todo = {} THEN sources
    ELSE LET k == CHOOSE x \in todo : TRUE
         IN InsertAliases(Insert(sources, Decorate(k), aliases[k]),
                          aliases, todo \ {k})

(* a loader for which the absence of ./.luaurc is an error as well *)
load_luaurc_strict(sources, explicit, file) ==
    IF file.status = "absent" THEN Err("io_error")
    ELSE IF file.status = "invalid" THEN Err("parse_error")
    ELSE Ok(<<>>, InsertAliases(sources, file.aliases, DOMAIN file.aliases))

(* load_luaurc(sources, path); `file` is the file found at the location    *)
(* that is opened (the explicit path, or ./.luaurc)                        *)
load_luaurc(sources, explicit, file) ==
    IF file.status = "absent"
    THEN IF explicit THEN Err("io_error") ELSE Ok(<<>>, sources)
    ELSE IF file.status = "invalid" THEN Err("parse_error")
    ELSE Ok(<<>>, InsertAliases(sources, file.aliases, DOMAIN file.aliases))

(* default_sources: load_luaurc(HashMap::new(), None).unwrap_or_default() *)
default_sources(file) ==
    LET r == load_luaurc(EmptyMap, FALSE, file)
    IN IF r.ok THEN r.sources ELSE EmptyMap

(* deserialize_sources: the map of the document, then load_luaurc on it *)
deserialize_sources(field, file) ==
    IF field.bad THEN Err("invalid_type")
    ELSE LET r == load_luaurc(field.map, FALSE, file)
         IN IF r.ok THEN r ELSE Err("custom_" \o r.err)

(* PathRequireMode::default() and PathRequireMode::new(name) *)
Default(file) == Ok(get_default_module_folder_name, default_sources(file))
New(name, file) == Ok(name, default_sources(file))

(* ---------------- deserialization of PathRequireMode ---------------- *)
FolderNames == {DEFAULT_MODULE_FOLDER_NAME, <<"l", "i", "b">>}

Field(key, bad, name, map) == [key |-> key, bad |-> bad, name |-> name, map |-> map]

Fields ==
    {Field("module_folder_name", FALSE, n, EmptyMap) : n \in FolderNames}
    \cup {Field("module_folder_name", TRUE, <<>>, EmptyMap)}
    \cup {Field("sources", FALSE, <<>>, m) : m \in SourceMaps}
    \cup {Field("sources", TRUE, <<>>, EmptyMap)}
    \cup {Field("extra", FALSE, <<>>, EmptyMap)}

RecognizedFields == {"module_folder_name", "sources"}

(* the struct without the attribute: unknown fields are skipped *)
deny_unknown_fields_off == FALSE

(* #[serde(deny_unknown_fields)] *)
deny_unknown_fields == TRUE

Documents == UNION {[1..n -> Fields] : n \in 0..MaxFields}

(* the derived visitor: fields are visited in document order; acc holds   *)
(* the fields seen so far (hasName/hasSources) and their values            *)
RECURSIVE VisitMap(_, _, _, _)
VisitMap(doc, i, acc, file) ==
    IF i > Len(doc)
    THEN Ok(IF acc.hasName THEN acc.name ELSE get_default_module_folder_name,
            IF acc.hasSources THEN acc.sources ELSE default_sources(file))
    ELSE LET f == doc[i] IN
         IF f.key \notin RecognizedFields
         THEN IF deny_unknown_fields THEN Err("unknown_field")
              ELSE VisitMap(doc, i + 1, acc, file)
         ELSE IF f.key = "module_folder_name"
         THEN IF acc.hasName THEN Err("duplicate_field")
              ELSE IF f.bad THEN Err("invalid_type")
              ELSE VisitMap(doc, i + 1, [acc EXCEPT !.hasName = TRUE, !.name = f.name], file)
         ELSE IF acc.hasSources THEN Err("duplicate_field")
              ELSE LET r == deserialize_sources(f, file)
                   IN IF ~r.ok THEN r
                      ELSE VisitMap(doc, i + 1,
                                    [acc EXCEPT !.hasSources = TRUE, !.sources = r.sources],
                                    file)

Deserialize(doc, file) ==
    VisitMap(doc, 1,
             [hasName |-> FALSE, name |-> <<>>, hasSources |-> FALSE, sources |-> EmptyMap],
             file)

(* ---------------- paths ---------------- *)
MaxDepth == 2
MaxLitDepth == 2

Platforms == {"unix", "windows"}

CUR == <<DOT>>
PARENT == <<DOT, DOT>>
ROOT == <<SLASH>>

(* std::path::MAIN_SEPARATOR and is_separator *)
MainSeparator(pf) == IF pf = "windows" THEN BACKSLASH ELSE SLASH
IsSeparator(c, pf) == c = SLASH \/ (pf = "windows" /\ c = BACKSLASH)

(* file names of the model; a backslash is an ordinary character of a     *)
(* file name on unix and a separator on windows                           *)
PathNames(pf) ==
    IF pf = "windows" THEN {<<"a">>, <<"b">>}
    ELSE {<<"a">>, <<"b">>, <<"a", BACKSLASH, "b">>}

SeqsUpTo(S, n) == UNION {[1..k -> S] : k \in 0..n}

Range(f) == {f[i] : i \in DOMAIN f}

MkPath(abs, comps) == [abs |-> abs, comps |-> comps]

(* Path::components of a text: split at separators, drop empty segments   *)
(* and every "." that is not the first component of a relative path       *)
RECURSIVE Split(_, _, _, _)
Split(text, pf, cur, acc) ==
    IF text = <<>> THEN (IF cur = <<>> THEN acc ELSE Append(acc, cur))
    ELSE IF IsSeparator(Head(text), pf)
         THEN Split(Tail(text), pf, <<>>, IF cur = <<>> THEN acc ELSE Append(acc, cur))
         ELSE Split(Tail(text), pf, Append(cur, Head(text)), acc)

RECURSIVE DropCur(_, _)
DropCur(segs, first) ==
    IF segs = <<>> THEN <<>>
    ELSE IF Head(segs) = CUR /\ ~first THEN DropCur(Tail(segs), FALSE)
    ELSE <<Head(segs)>> \o DropCur(Tail(segs), FALSE)

Components(text, pf) ==
    LET abs == text # <<>> /\ IsSeparator(Head(text), pf)
    IN MkPath(abs, DropCur(Split(text, pf, <<>>, <<>>), ~abs))

(* Path::to_str of a path built from components: the components joined by *)
(* the main separator, after the root (and the drive on windows)           *)
RECURSIVE Join(_, _)
Join(comps, sep) ==
    IF comps = <<>> THEN <<>>
    ELSE IF Len(comps) = 1 THEN Head(comps)
    ELSE Head(comps) \o <<sep>> \o Join(Tail(comps), sep)

RootText(pf) == IF pf = "windows" THEN <<"C", ":", BACKSLASH>> ELSE <<SLASH>>

ToStr(path, pf) ==
    (IF path.abs THEN RootText(pf) ELSE <<>>) \o Join(path.comps, MainSeparator(pf))

(* PathBuf::pop: truncate to the parent, nothing to remove at the root *)
Pop(path) ==
    IF path.comps = <<>> THEN path
    ELSE MkPath(path.abs, SubSeq(path.comps, 1, Len(path.comps) - 1))

(* the iterator of components, the root being a component of its own *)
Iter(path) == (IF path.abs THEN <<ROOT>> ELSE <<>>) \o path.comps

Parents(n) == [i \in 1..n |-> PARENT]

NoneDiff == [some |-> FALSE, path |-> MkPath(FALSE, <<>>)]
SomeDiff(path) == [some |-> TRUE, path |-> path]

(* the loop of pathdiff::diff_paths over the two component iterators *)
RECURSIVE DiffLoop(_, _, _)
DiffLoop(ita, itb, comps) ==
    IF ita = <<>> /\ itb = <<>> THEN SomeDiff(MkPath(FALSE, comps))
    ELSE IF itb = <<>> THEN SomeDiff(MkPath(FALSE, comps \o ita))
    ELSE IF ita = <<>> THEN DiffLoop(<<>>, Tail(itb), Append(comps, PARENT))
    ELSE IF comps = <<>> /\ Head(ita) = Head(itb) THEN DiffLoop(Tail(ita), Tail(itb), comps)
    ELSE IF Head(itb) = CUR THEN DiffLoop(Tail(ita), Tail(itb), Append(comps, Head(ita)))
    ELSE IF Head(itb) = PARENT THEN NoneDiff
    ELSE SomeDiff(MkPath(FALSE, comps \o Parents(Len(itb)) \o ita))

diff_paths(path, base) ==
    IF path.abs # base.abs
    THEN IF path.abs THEN SomeDiff(path) ELSE NoneDiff
    ELSE DiffLoop(Iter(path), Iter(base), <<>>)

(* a replacement of the first backslash only (str::replacen(.., 1)) *)
RECURSIVE ReplaceFirst(_)
ReplaceFirst(text) ==
    IF text = <<>> THEN <<>>
    ELSE IF Head(text) = BACKSLASH THEN <<SLASH>> \o Tail(text)
    ELSE <<Head(text)>> \o ReplaceFirst(Tail(text))

(* str::replace("\\", "/") *)
RECURSIVE Replace(_)
Replace(text) ==
    IF text = <<>> THEN <<>>
    ELSE <<IF Head(text) = BACKSLASH THEN SLASH ELSE Head(text)>> \o Replace(Tail(text))

GenOk(text) == [ok |-> TRUE, err |-> "", text |-> text]
GenErr(kind) == [ok |-> FALSE, err |-> kind, text |-> <<>>]

(* the prefix rule of generate_require *)
Prefix(path_str) ==
    IF ~StartsWith(path_str, <<DOT, SLASH>>) THEN <<DOT, SLASH>> \o path_str ELSE path_str

(* names of the model are valid UTF-8 and free of "]]", so to_str and     *)
(* StringExpression::new succeed; the one error left is the missing       *)
(* path difference                                                        *)
generate_require(path, cur, pf) ==
    LET diff == diff_paths(path, Pop(cur))
    IN IF ~diff.some THEN GenErr("invalid path difference")
       ELSE GenOk(Prefix(Replace(ToStr(diff.path, pf))))

(* ---------------- module folder predicate ---------------- *)
MaxNameLen == 3

None == [some |-> FALSE, val |-> <<>>]
Some(v) == [some |-> TRUE, val |-> v]

(* Path::file_name: the last component when it is a normal one *)
file_name(path) ==
    IF path.comps = <<>> THEN None
    ELSE LET last == path.comps[Len(path.comps)]
         IN IF last \in {CUR, PARENT} THEN None ELSE Some(last)

Dots(name) == {i \in 1..Len(name) : name[i] = DOT}

LastDot(name) == CHOOSE i \in Dots(name) : \A j \in Dots(name) : j <= i

FirstDot(name) == CHOOSE i \in Dots(name) : \A j \in Dots(name) : i <= j

(* the file name up to its first dot (Path::file_prefix) *)
StemAtFirstDot(name) ==
    IF Dots(name) = {} \/ FirstDot(name) = 1 THEN name
    ELSE SubSeq(name, 1, FirstDot(name) - 1)

(* Path::file_stem: the file name up to its last dot, the whole name when *)
(* it has no dot or only a leading one                                    *)
StemOf(name) ==
    IF Dots(name) = {} \/ LastDot(name) = 1 THEN name
    ELSE SubSeq(name, 1, LastDot(name) - 1)

file_stem(path) ==
    LET f == file_name(path)
    IN IF f.some THEN Some(StemOf(f.val)) ELSE None

is_module_folder_name(m, path) ==
    LET expect_value == Some(m.module_folder_name)
    IN file_name(path) = expect_value \/ file_stem(path) = expect_value

(* ---------------- find_require ---------------- *)
(* match_path_require_call: the literal of a call of `require` with one   *)
(* literal string argument                                                *)
match_path_require_call(c) ==
    IF c.callee = "require" /\ c.args = "string" THEN Some(c.literal) ELSE None

(* lexical walk of the components of a literal from a directory *)
RECURSIVE Walk(_, _, _)
Walk(dir, lit, abs) ==
    IF lit = <<>> THEN dir
    ELSE LET c == Head(lit) IN
         IF c = CUR THEN Walk(dir, Tail(lit), abs)
         ELSE IF c = PARENT
         THEN IF dir # <<>> /\ dir[Len(dir)] \notin {CUR, PARENT}
              THEN Walk(SubSeq(dir, 1, Len(dir) - 1), Tail(lit), abs)
              ELSE IF dir = <<>> /\ abs THEN Walk(dir, Tail(lit), abs)
              ELSE Walk(Append(dir, PARENT), Tail(lit), abs)
         ELSE Walk(Append(dir, c), Tail(lit), abs)

Resolve(cur, text, pf) ==
    MkPath(cur.abs, Walk(Pop(cur).comps, Components(text, pf).comps, cur.abs))

FoundNone == [status |-> "none", invoked |-> FALSE, err |-> "", path |-> MkPath(FALSE, <<>>)]
FoundErr(kind) == [status |-> "err", invoked |-> TRUE, err |-> kind, path |-> MkPath(FALSE, <<>>)]
FoundSome(path) == [status |-> "some", invoked |-> TRUE, err |-> "", path |-> path]

(* RequirePathLocator::find_require_path: a relative literal is walked    *)
(* from the directory of the current file and the target must exist; any  *)
(* other literal must start with a key of the alias mapping               *)
find_require_path(m, text, cur, exists, pf) ==
    LET lit == Components(text, pf) IN
    IF ~lit.abs /\ lit.comps # <<>> /\ Head(lit.comps) \in {CUR, PARENT}
    THEN IF exists THEN FoundSome(Resolve(cur, text, pf)) ELSE FoundErr("not_found")
    ELSE IF lit.comps = <<>> \/ Head(lit.comps) \notin DOMAIN m.sources
         THEN FoundErr("unknown_source")
         ELSE FoundErr("not_found")

(* a resolver that hands the argument to the locator before looking at   *)
(* the shape of the call                                                 *)
find_require_eager(m, c, cur, exists, pf) ==
    find_require_path(m, c.literal, cur, exists, pf)

find_require(m, c, cur, exists, pf) ==
    LET literal_path == match_path_require_call(c)
    IN IF literal_path.some
       THEN find_require_path(m, literal_path.val, cur, exists, pf)
       ELSE FoundNone

(* ---------------- state ---------------- *)
NoMode == [built |-> FALSE, module_folder_name |-> <<>>, sources |-> EmptyMap]
Built(r) == [built |-> TRUE, module_folder_name |-> r.module_folder_name, sources |-> r.sources]
ModeOf(r) == IF r.ok THEN Built(r) ELSE NoMode

AbsentFile == [status |-> "absent", aliases |-> EmptyMap]

NoOp == [name |-> "none"]
NoRes == [ok |-> FALSE, err |-> "none", module_folder_name |-> <<>>, sources |-> EmptyMap]
NoPath == MkPath(FALSE, <<>>)
NoCall == [callee |-> "", args |-> "", literal |-> <<>>]
FoundUnset == [status |-> "unset", invoked |-> FALSE, err |-> "", path |-> NoPath]
GenUnset == [done |-> FALSE, src |-> "", path |-> NoPath, ok |-> FALSE, err |-> "", text |-> <<>>]

(* ---------------- construction and loading ---------------- *)
InitConfig ==
    /\ luaurc \in LuaurcFiles
    /\ mode = NoMode
    /\ op = NoOp
    /\ res = NoRes
    /\ platform = "unix"
    /\ current_path = NoPath
    /\ call = NoCall
    /\ found = FoundUnset
    /\ gen = GenUnset

(* files an explicit path may name *)
ExplicitFiles ==
    {f \in LuaurcFiles : f.status # "valid" \/ Cardinality(DOMAIN f.aliases) = 1}

(* no operation changes ./.luaurc and none reads the result of another,   *)
(* so a behaviour is one operation on one content of the file             *)
LoadLuaurc ==
    /\ op = NoOp
    /\ \E m \in SourceMaps, explicit \in BOOLEAN :
      \E file \in (IF explicit THEN ExplicitFiles ELSE {luaurc}) :
        /\ op' = [name |-> "load_luaurc", explicit |-> explicit, start |-> m, file |-> file]
        /\ res' = load_luaurc(m, explicit, file)
        /\ mode' = NoMode
        /\ UNCHANGED <<platform, luaurc, current_path, call, found, gen>>

DefaultMode ==
    /\ op = NoOp
    /\ op' = [name |-> "default"]
    /\ res' = Default(luaurc)
    /\ mode' = ModeOf(res')
    /\ UNCHANGED <<platform, luaurc, current_path, call, found, gen>>

NewMode ==
    /\ op = NoOp
    /\ \E n \in FolderNames :
        /\ op' = [name |-> "new", arg |-> n]
        /\ res' = New(n, luaurc)
        /\ mode' = ModeOf(res')
        /\ UNCHANGED <<platform, luaurc, current_path, call, found, gen>>

DeserializeMode ==
    /\ op = NoOp
    /\ \E doc \in Documents :
        /\ op' = [name |-> "deserialize", doc |-> doc]
        /\ res' = Deserialize(doc, luaurc)
        /\ mode' = ModeOf(res')
        /\ UNCHANGED <<platform, luaurc, current_path, call, found, gen>>

NextConfig == LoadLuaurc \/ DefaultMode \/ NewMode \/ DeserializeMode

SpecConfig == InitConfig /\ [][NextConfig]_vars

(* ---------------- module folder predicate ---------------- *)
NameChars == {"i", "m", DOT}

INIT_LUA == <<"i", "n", "i", "t", ".", "l", "u", "a">>
INIT_LUAU == <<"i", "n", "i", "t", ".", "l", "u", "a", "u">>
OOPS_LUA == <<"o", "o", "p", "s", ".", "l", "u", "a">>
MYINIT_LUA == <<"m", "y", "i", "n", "i", "t", ".", "l", "u", "a">>
FOLDER == <<"f", "o", "l", "d", "e", "r">>

ExampleNames == {DEFAULT_MODULE_FOLDER_NAME, INIT_LUA, INIT_LUAU, OOPS_LUA, MYINIT_LUA}

(* components a path may end with: "." only alone, ".." anywhere *)
LastComps == (SeqsUpTo(NameChars, MaxNameLen) \ {<<>>, CUR}) \cup ExampleNames

ModuleNames == (SeqsUpTo(NameChars, MaxNameLen) \ {<<>>}) \cup {DEFAULT_MODULE_FOLDER_NAME, <<>>}

FolderPaths ==
    {MkPath(FALSE, <<>>), MkPath(TRUE, <<>>), MkPath(FALSE, <<CUR>>)}
    \cup {MkPath(abs, d \o <<c>>) :
            abs \in BOOLEAN, d \in {<<>>, <<FOLDER>>, <<DEFAULT_MODULE_FOLDER_NAME>>},
            c \in LastComps}

InitFolder ==
    /\ mode \in {Built(Ok(n, EmptyMap)) : n \in ModuleNames}
    /\ luaurc = AbsentFile
    /\ op = NoOp
    /\ res = [value |-> FALSE]
    /\ platform = "unix"
    /\ current_path = NoPath
    /\ call = NoCall
    /\ found = FoundUnset
    /\ gen = GenUnset

IsModuleFolderName ==
    /\ op = NoOp
    /\ \E p \in FolderPaths :
        /\ op' = [name |-> "is_module_folder_name", path |-> p]
        /\ res' = [value |-> is_module_folder_name(mode, p)]
        /\ UNCHANGED <<platform, luaurc, mode, current_path, call, found, gen>>

NextFolder == IsModuleFolderName

SpecFolder == InitFolder /\ [][NextFolder]_vars

(* ---------------- find_require and generate_require ---------------- *)
(* lexically clean component lists: ".." only at the front of a relative  *)
(* path, never in an absolute one                                         *)
Clean(abs, comps) ==
    \A i \in 1..Len(comps) :
        comps[i] = PARENT => (~abs /\ (i = 1 \/ comps[i - 1] = PARENT))

CleanPaths(pf, n) ==
    UNION {{MkPath(abs, d) :
              d \in {c \in SeqsUpTo(PathNames(pf) \cup {PARENT}, n) : Clean(abs, c)}} :
           abs \in BOOLEAN}

MAIN == <<"m">>

(* the file being processed: a file `m` in a clean directory, which may   *)
(* be written with a leading "."                                          *)
CurrentPaths(pf) ==
    {MkPath(d.abs, d.comps \o <<MAIN>>) : d \in CleanPaths(pf, MaxDepth)}
    \cup {MkPath(FALSE, <<CUR>> \o d.comps \o <<MAIN>>) :
            d \in {x \in CleanPaths(pf, MaxDepth - 1) : ~x.abs /\ PARENT \notin Range(x.comps)}}

(* targets the file graph of the bundler may hand to generate_require *)
GraphPaths(pf) == {p \in CleanPaths(pf, MaxDepth) : p.comps # <<>>}

Literals(pf) ==
    {Join(<<first>> \o rest, SLASH) :
        first \in {CUR, PARENT}, rest \in SeqsUpTo(PathNames(pf) \cup {PARENT}, MaxLitDepth)}
    \cup {<<"a">>}

Call(callee, args, literal) == [callee |-> callee, args |-> args, literal |-> literal]

Calls(pf) ==
    {Call("require", "string", l) : l \in Literals(pf)}
    \cup {Call("require", a, <<>>) : a \in {"none", "variable", "two_strings"}}
    \cup {Call("print", "string", l) : l \in {<<DOT, SLASH, "a">>, <<"a">>}}

InitRequire ==
    /\ platform \in Platforms
    /\ current_path \in CurrentPaths(platform)
    /\ luaurc = AbsentFile
    /\ mode = Built(Default(AbsentFile))
    /\ op = NoOp
    /\ res = NoRes
    /\ call = NoCall
    /\ found = FoundUnset
    /\ gen = GenUnset

FindRequire ==
    /\ found.status = "unset"
    /\ ~gen.done
    /\ \E c \in Calls(platform), exists \in BOOLEAN :
        /\ call' = c
        /\ found' = find_require(mode, c, current_path, exists, platform)
    /\ UNCHANGED <<platform, luaurc, mode, op, res, current_path, gen>>

GenerateRequire ==
    /\ ~gen.done
    /\ found.status \in {"unset", "some"}
    /\ \E path \in (IF found.status = "some" THEN {found.path} ELSE GraphPaths(platform)) :
        LET r == generate_require(path, current_path, platform)
        IN gen' = [done |-> TRUE,
                   src |-> IF found.status = "some" THEN "found" ELSE "graph",
                   path |-> path, ok |-> r.ok, err |-> r.err, text |-> r.text]
    /\ UNCHANGED <<platform, luaurc, mode, op, res, current_path, call, found>>

NextRequire == FindRequire \/ GenerateRequire

SpecRequire == InitRequire /\ [][NextRequire]_vars

(* ---------------- properties of generate_require ---------------- *)
(* the computed difference after separator normalisation, before the prefix rule *)
NormalizedDiff ==
    Replace(ToStr(diff_paths(gen.path, Pop(current_path)).path, platform))

HasMarker(text) ==
    StartsWith(text, <<DOT, SLASH>>) \/ StartsWith(text, <<DOT, DOT, SLASH>>)

HasBackslash(text) == BACKSLASH \in Range(text)

(* C1: the emitted literal is the normalized difference, prefixed with ./ *)
(* only when it has no ./ or ../ marker; a parent-directory target is     *)
(* emitted as ../..., never as ./../...                                   *)
C1_PrefixRule ==
    (gen.done /\ gen.ok) =>
        /\ gen.text = IF HasMarker(NormalizedDiff) THEN NormalizedDiff
                      ELSE <<DOT, SLASH>> \o NormalizedDiff
        /\ ~StartsWith(gen.text, <<DOT, SLASH, DOT, DOT, SLASH>>)

(* C2: the literal generated for a target that was resolved from the      *)
(* current file resolves from the current file to that same target        *)
C2_RoundTrip ==
    (gen.done /\ gen.ok /\ gen.src = "found") =>
        Resolve(current_path, gen.text, platform) = found.path

(* the round trip restricted to unix paths whose names have no backslash *)
RoundTripNoBackslash ==
    (gen.done /\ gen.ok /\ gen.src = "found" /\ platform = "unix"
        /\ (\A i \in DOMAIN found.path.comps : ~HasBackslash(found.path.comps[i]))
        /\ (\A j \in DOMAIN current_path.comps : ~HasBackslash(current_path.comps[j]))) =>
        Resolve(current_path, gen.text, platform) = found.path

(* the round trip on windows, where a backslash is always a separator *)
RoundTripWindows ==
    (gen.done /\ gen.ok /\ gen.src = "found" /\ platform = "windows") =>
        Resolve(current_path, gen.text, platform) = found.path

(* C9: a literal that generate_require emits contains no backslash *)
C9_NoBackslash == (gen.done /\ gen.ok) => ~HasBackslash(gen.text)

C9_Witness ==
    /\ gen.done /\ gen.ok
    /\ HasBackslash(ToStr(diff_paths(gen.path, Pop(current_path)).path, platform))
    /\ ~HasBackslash(gen.text)

(* ---------------- properties of loading and construction ---------------- *)
(* S overridden by the decorated aliases of C *)
Override(S, C) ==
    [k \in (DOMAIN S) \cup {<<AT>> \o n : n \in DOMAIN C} |->
        IF \E n \in DOMAIN C : k = <<AT>> \o n
        THEN C[CHOOSE n \in DOMAIN C : k = <<AT>> \o n]
        ELSE S[k]]

HasField(doc, key) == \E i \in DOMAIN doc : doc[i].key = key

HasUnknownField(doc) == \E i \in DOMAIN doc : doc[i].key \notin {"module_folder_name", "sources"}

(* the `sources` the document supplies *)
Supplied(doc) == doc[CHOOSE i \in DOMAIN doc : doc[i].key = "sources"].map

LoadsConvention ==
    \/ op.name \in {"default", "new", "deserialize"}
    \/ (op.name = "load_luaurc" /\ ~op.explicit)

(* C3: with an invalid ./.luaurc every operation that loads it ends in an *)
(* error and yields neither a mapping nor a state                         *)
C3_InvalidIsError ==
    (LoadsConvention /\ luaurc.status = "invalid") => (~res.ok /\ ~mode.built)

(* C4: deserializing a document that supplies `sources` S while ./.luaurc *)
(* declares aliases C gives the mapping S overridden by "@"+name -> path  *)
C4_Precedence ==
    (op.name = "deserialize" /\ res.ok /\ HasField(op.doc, "sources")
        /\ luaurc.status = "valid") =>
        /\ mode.built
        /\ mode.sources = Override(Supplied(op.doc), luaurc.aliases)

C4_Witness ==
    /\ op.name = "deserialize" /\ res.ok /\ HasField(op.doc, "sources")
    /\ luaurc.status = "valid"
    /\ \E n \in DOMAIN luaurc.aliases :
        /\ <<AT>> \o n \in DOMAIN Supplied(op.doc)
        /\ Supplied(op.doc)[<<AT>> \o n] # luaurc.aliases[n]
        /\ mode.sources[<<AT>> \o n] = luaurc.aliases[n]
    /\ \E k \in DOMAIN Supplied(op.doc) :
        /\ \A n \in DOMAIN luaurc.aliases : k # <<AT>> \o n
        /\ mode.sources[k] = Supplied(op.doc)[k]

(* C5 as stated: every key of the alias mapping of a constructed state    *)
(* begins with @                                                          *)
C5_AllKeysMarked ==
    mode.built => \A k \in DOMAIN mode.sources : Head(k) = AT

(* C5 amended: every key of the alias mapping of a constructed state      *)
(* begins with @ or is a key the document supplied in `sources`, which is *)
(* kept as written                                                        *)
C5_KeysMarkedOrSupplied ==
    mode.built =>
        \A k \in DOMAIN mode.sources :
            \/ Head(k) = AT
            \/ /\ op.name = "deserialize"
               /\ HasField(op.doc, "sources")
               /\ k \in DOMAIN Supplied(op.doc)

C5_Witness ==
    /\ mode.built
    /\ op.name = "deserialize"
    /\ luaurc.status = "valid"
    /\ <<"a">> \in DOMAIN luaurc.aliases
    /\ <<"a">> \in DOMAIN mode.sources
    /\ <<AT, "a">> \in DOMAIN mode.sources

(* C7: load_luaurc(M, None) returns M when ./.luaurc is absent, and M     *)
(* overridden by "@"+name -> path when it is well formed                  *)
C7_LoadMerges ==
    (op.name = "load_luaurc" /\ ~op.explicit) =>
        /\ luaurc.status = "absent" => (res.ok /\ res.sources = op.start)
        /\ luaurc.status = "valid" =>
              (res.ok /\ res.sources = Override(op.start, luaurc.aliases))

C7_Witness ==
    /\ op.name = "load_luaurc" /\ ~op.explicit
    /\ luaurc.status = "valid"
    /\ op.start = (<<AT, "a">> :> "/x")
    /\ luaurc.aliases = (<<"a">> :> "/y")
    /\ res.ok
    /\ res.sources = (<<AT, "a">> :> "/y")

(* C10: a document with a field other than module_folder_name and sources *)
(* is rejected and yields no state                                        *)
C10_UnknownFieldRejected ==
    (op.name = "deserialize" /\ HasUnknownField(op.doc)) => (~res.ok /\ ~mode.built)

C10_Witness ==
    /\ op.name = "deserialize"
    /\ Len(op.doc) = 2
    /\ op.doc[1].key = "sources" /\ ~op.doc[1].bad
    /\ op.doc[2].key = "extra"
    /\ luaurc.status = "valid"
    /\ res.err = "unknown_field"
    /\ ~mode.built

(* ---------------- properties of the module folder predicate ---------------- *)
(* name is n followed by one extension: a dot and dot-free text *)
IsNamePlusExtension(name, n) ==
    /\ n # <<>>
    /\ Len(name) > Len(n)
    /\ SubSeq(name, 1, Len(n)) = n
    /\ name[Len(n) + 1] = DOT
    /\ \A i \in (Len(n) + 2)..Len(name) : name[i] # DOT

Expected(path, n) ==
    /\ path.comps # <<>>
    /\ LET last == path.comps[Len(path.comps)]
       IN /\ last \notin {CUR, PARENT}
          /\ (last = n \/ IsNamePlusExtension(last, n))

LastOf(path) == path.comps[Len(path.comps)]

(* C6: is_module_folder_name(p) holds exactly when the final component of *)
(* p is the module folder name, or is it followed by one extension        *)
C6_ModuleFolderName ==
    (op.name = "is_module_folder_name") =>
        /\ res.value <=> Expected(op.path, mode.module_folder_name)
        /\ (mode.module_folder_name = DEFAULT_MODULE_FOLDER_NAME /\ op.path.comps # <<>>) =>
            /\ LastOf(op.path) \in {DEFAULT_MODULE_FOLDER_NAME, INIT_LUA, INIT_LUAU} => res.value
            /\ LastOf(op.path) \in {OOPS_LUA, MYINIT_LUA} => ~res.value

C6_Witness ==
    /\ op.name = "is_module_folder_name"
    /\ mode.module_folder_name = DEFAULT_MODULE_FOLDER_NAME
    /\ op.path = MkPath(FALSE, <<FOLDER, INIT_LUA>>)
    /\ res.value

(* ---------------- properties of find_require ---------------- *)
Recognized(c) == c.callee = "require" /\ c.args = "string"

(* C8: a call that is not a require of one literal string yields Ok(None) *)
(* without an error and without a call of the path locator                *)
C8_NotApplicable ==
    (found.status # "unset" /\ ~Recognized(call)) =>
        (found.status = "none" /\ ~found.invoked)

C8_Witness ==
    /\ found.status = "none"
    /\ ~found.invoked
    /\ call.callee = "require"
    /\ call.args = "variable"
====
